---- MODULE Spec2Model ----
(***************************************************************************)
(* Model of src/src/entity.ts: class Entity, the batch driver              *)
(* (Entity.handle), the per-operation context and the method-dispatch      *)
(* helper (Entity.dispatch).                                               *)
(*                                                                         *)
(* One invocation of handle is a run of the state machine.  handle has no  *)
(* await of its own, so the whole loop over the batch runs to completion   *)
(* on the JavaScript call stack; the continuation of a dispatch that       *)
(* awaited a promise is a microtask and can only run once the stack is     *)
(* empty, i.e. after handle has called context.done.                       *)
(*                                                                         *)
(* The user function (Entity.fn) is one function for all requests; it is   *)
(* modelled as a switch on the operation name whose default branch         *)
(* delegates to dispatch (UserLogic).                                      *)
(*                                                                         *)
(* Text (serialized values) is a sequence of one-character strings.        *)
(* durationMs of OperationResult is not modelled.                          *)
(***************************************************************************)
EXTENDS Integers, Sequences, FiniteSets, TLC

\* ------------------------------------------------------------------ bounds
MaxBatch == 2

\* ------------------------------------------------------------------ values
Undef == [t |-> "undefined"]
Num(n) == [t |-> "number", n |-> n]
Str(s) == [t |-> "string", s |-> s]
Arr(a) == [t |-> "array", a |-> a]
Obj(f) == [t |-> "object", f |-> f]
ErrorObject == [t |-> "error"]
EmptyFields == [k \in {} |-> 0]
CounterFields(n) == [k \in {"counter"} |-> n]

UndefinedText == <<"undefined">>
EmptyText == <<>>

\* JavaScript truthiness of a string-or-undefined
Truthy(s) == s # UndefinedText /\ s # EmptyText

\* JavaScript truthiness of a value
TruthyValue(v) ==
    CASE v.t = "undefined" -> FALSE
      [] v.t = "number" -> v.n # 0
      [] v.t = "string" -> v.s # EmptyText
      [] OTHER -> TRUE

DigitChars == <<"0", "1", "2", "3", "4", "5", "6", "7", "8", "9">>

RECURSIVE Digits(_)
Digits(n) == IF n < 10 THEN <<DigitChars[n + 1]>>
             ELSE Digits(n \div 10) \o <<DigitChars[(n % 10) + 1]>>

RECURSIVE Escape(_)
Escape(s) ==
    IF s = <<>> THEN <<>>
    ELSE (IF Head(s) \in {"\"", "\\"} THEN <<"\\", Head(s)>> ELSE <<Head(s)>>)
         \o Escape(Tail(s))

CounterKey == <<"\"", "c", "o", "u", "n", "t", "e", "r", "\"", ":">>

RECURSIVE StringifyElems(_)
StringifyElems(a) ==
    IF a = <<>> THEN <<>>
    ELSE Digits(Head(a).n) \o (IF Len(a) > 1 THEN <<",">> ELSE <<>>)
         \o StringifyElems(Tail(a))

\* JSON.stringify
JSONstringify(v) ==
    CASE v.t = "undefined" -> UndefinedText
      [] v.t = "number" -> Digits(v.n)
      [] v.t = "string" -> <<"\"">> \o Escape(v.s) \o <<"\"">>
      [] v.t = "array" -> <<"[">> \o StringifyElems(v.a) \o <<"]">>
      [] v.t = "error" -> <<"{", "}">>
      [] v.t = "object" ->
            IF "counter" \in DOMAIN v.f
            THEN <<"{">> \o CounterKey \o Digits(v.f["counter"]) \o <<"}">>
            ELSE <<"{", "}">>

DigitValue(c) == CHOOSE d \in 0..9 : DigitChars[d + 1] = c

IsDigits(s) == /\ s # <<>>
               /\ \A k \in 1..Len(s) : \E d \in 1..10 : DigitChars[d] = s[k]

RECURSIVE ParseNumber(_)
ParseNumber(s) == IF Len(s) = 1 THEN DigitValue(s[1])
                  ELSE 10 * ParseNumber(SubSeq(s, 1, Len(s) - 1)) + DigitValue(s[Len(s)])

RECURSIVE Unescape(_)
Unescape(s) ==
    IF s = <<>> THEN <<>>
    ELSE IF Head(s) = "\\" /\ Len(s) > 1 THEN <<s[2]>> \o Unescape(Tail(Tail(s)))
    ELSE <<Head(s)>> \o Unescape(Tail(s))

RECURSIVE ParseElems(_)
ParseElems(s) ==
    IF s = <<>> THEN <<>>
    ELSE LET commas == {k \in 1..Len(s) : s[k] = ","}
         IN IF commas = {} THEN <<Num(ParseNumber(s))>>
            ELSE LET c == CHOOSE k \in commas : \A m \in commas : k <= m
                 IN <<Num(ParseNumber(SubSeq(s, 1, c - 1)))>>
                    \o ParseElems(SubSeq(s, c + 1, Len(s)))

\* JSON.parse, on the texts JSONstringify produces
JSONparse(s) ==
    CASE IsDigits(s) -> Num(ParseNumber(s))
      [] s = <<"{", "}">> -> Obj(EmptyFields)
      [] Len(s) > 2 /\ s[1] = "{" ->
            Obj(CounterFields(ParseNumber(SubSeq(s, Len(CounterKey) + 2, Len(s) - 1))))
      [] Len(s) >= 2 /\ s[1] = "[" -> Arr(ParseElems(SubSeq(s, 2, Len(s) - 1)))
      [] Len(s) >= 2 /\ s[1] = "\"" -> Str(Unescape(SubSeq(s, 2, Len(s) - 1)))

\* new OperationResult(isError, duration, result)
OperationResult(isError, result) == [isError |-> isError, result |-> result]

\* new Signal(target, name, input)
Signal(target, name, input) == [target |-> target, name |-> name, input |-> input]


\* ------------------------------------------------------------------ inputs
\* EntityId of the signalled entity
TargetId == [name |-> "other", key |-> "k"]

\* the entity class handed to dispatch:
\*   class Counter { counter = 0;
\*                   add(n) { this.counter += n; return this.counter; }
\*                   async addAsync(n) { this.counter += n; return this.counter; }
\*                   fail() { throw new Error(); } }
EntityFactory == Obj(CounterFields(0))
Methods == {"add", "addAsync", "fail"}
Add(entity, args) == Obj([entity.f EXCEPT !["counter"] = @ + args[1].n])

\* calls user logic makes on context.df
CallGetState(hasInitializer) == [op |-> "getState", init |-> hasInitializer]
CallSetState(v) == [op |-> "setState", v |-> v]
CallReturn(v) == [op |-> "return", v |-> v]
CallReturnState == [op |-> "returnState"]
CallDestruct == [op |-> "destructOnExit"]
CallSignal(v) == [op |-> "signalEntity", v |-> v]
CallSignalTyped(n) == [op |-> "signalTyped", v |-> <<Num(n)>>]
CallDispatch == [op |-> "dispatch"]

Completes(cs) == [calls |-> cs, throws |-> FALSE, error |-> Undef]
Throws(cs, e) == [calls |-> cs, throws |-> TRUE, error |-> e]
InitializerValue == Num(0)

\* the function given to the Entity constructor, by operation name:
\* the calls it makes and whether it then throws (new Error(), or a number)
UserLogic(name) ==
    CASE name = "noop" -> Completes(<<>>)
      [] name = "get" -> Completes(<<CallReturnState>>)
      [] name = "init" -> Completes(<<CallGetState(TRUE), CallGetState(FALSE)>>)
      [] name = "set7" -> Completes(<<CallSetState(Num(7)), CallGetState(TRUE)>>)
      [] name = "clear" -> Completes(<<CallSetState(Undef)>>)
      [] name = "reset" -> Completes(<<CallDestruct, CallGetState(FALSE)>>)
      [] name = "ret" -> Completes(<<CallReturn(Num(1))>>)
      [] name = "ret2" -> Completes(<<CallReturn(Num(1)), CallReturn(Num(2))>>)
      [] name = "boom" -> Throws(<<>>, ErrorObject)
      [] name = "retboom" -> Throws(<<CallReturn(Num(2))>>, ErrorObject)
      [] name = "setboom" -> Throws(<<CallSetState(Num(7))>>, ErrorObject)
      [] name = "signal" -> Completes(<<CallSignal(Num(1)), CallSignalTyped(2)>>)
      [] name = "ping" -> Throws(<<CallSignal(Undef)>>, Num(2))
      [] name = "bye" -> Completes(<<CallSignal(Num(0)), CallDestruct>>)
      [] OTHER -> Completes(<<CallDispatch>>)

DirectNames == {"noop", "get", "init", "set7", "clear", "reset", "ret", "ret2",
                "boom", "retboom", "setboom", "signal", "ping", "bye"}
ArgsOne == <<"[", "1", "]">>
ArgsTwo == <<"[", "2", "]">>
ArgsFive == <<"[", "5", "]">>

\* the requests a batch is drawn from
RequestMessages ==
    [name : DirectNames, input : {ArgsOne}]
    \cup [name : {"add", "addAsync"}, input : {ArgsOne, ArgsTwo}]
    \cup [name : {"", "fail", "missing"}, input : {ArgsOne}]
    \cup {[name |-> "add", input |-> ArgsFive], [name |-> "add", input |-> EmptyText]}

RECURSIVE SeqsUpTo(_, _)
SeqsUpTo(S, n) ==
    IF n = 0 THEN {<<>>}
    ELSE LET shorter == SeqsUpTo(S, n - 1)
         IN shorter \cup {Append(q, x) : q \in {r \in shorter : Len(r) = n - 1}, x \in S}

\* prior-state snapshots the host supplies
SeedStates == { [exists |-> FALSE, state |-> UndefinedText],
                [exists |-> TRUE, state |-> UndefinedText],
                [exists |-> TRUE, state |-> JSONstringify(Obj(CounterFields(9)))],
                [exists |-> TRUE, state |-> <<"7">>] }

NoBinding == [binding |-> FALSE]
DurableEntityBindingInfos ==
    { [binding |-> TRUE, exists |-> s.exists, state |-> s.state, batch |-> b] :
        s \in SeedStates, b \in SeqsUpTo(RequestMessages, MaxBatch) }

\* ------------------------------------------------------------------- state
VARIABLES
    entityBinding,  \* the binding found on context.bindings, or NoBinding
    pc,             \* "idle", "fn" (inside this.fn(context)), "done", "failed"
    i,              \* loop index of handle
    df,             \* context.df
    ip,             \* number of context calls the running user logic has made
    returnState,    \* the EntityState accumulator
    pending,        \* dispatch continuations suspended at "await result"
    doneCalls,      \* number of context.done calls
    log,            \* history: per started request, how its user logic ended
    written,        \* history: the latest setState / destructOnExit
    destroyed,      \* history: destructOnExit with no later setState / return
    read,           \* history: the latest getState call and what it returned
    stepReq,        \* history: request of the latest user-logic step
    resumed         \* history: number of continuations that have run

vars == <<entityBinding, pc, i, df, ip, returnState, pending, doneCalls,
          log, written, destroyed, read, stepReq, resumed>>

NoReturnState == [created |-> FALSE]
NoContext == [requestIndex |-> -1]
NoRead == [req |-> -1]
NoWrite == [kind |-> "none"]
NewLog == [end |-> "running", dispatch |-> "none"]

Init ==
    /\ entityBinding \in DurableEntityBindingInfos \cup {NoBinding}
    /\ pc = "idle"
    /\ i = 0
    /\ df = NoContext
    /\ ip = 0
    /\ returnState = NoReturnState
    /\ pending = {}
    /\ doneCalls = 0
    /\ log = <<>>
    /\ written = NoWrite
    /\ destroyed = FALSE
    /\ read = NoRead
    /\ stepReq = -1
    /\ resumed = 0

\* ------------------------------------------------- per-operation context
getCurrentDurableEntityContext(bindingInfo, batchState, requestIndex) ==
    [ requestIndex |-> requestIndex,
      operationName |-> bindingInfo.batch[requestIndex + 1].name,
      isNewlyConstructed |-> ~batchState.entityExists ]

\* destructOnExit that forgets to clear the state
destructOnExitKeepsState(batchState) ==
    [batchState EXCEPT !.entityExists = FALSE]

destructOnExit(batchState) ==
    [batchState EXCEPT !.entityExists = FALSE, !.entityState = UndefinedText]

getInput(currentRequest) ==
    IF Truthy(currentRequest.input) THEN JSONparse(currentRequest.input) ELSE Undef

\* getState that prefers the initializer over the stored state
getStateInitializerFirst(rs, hasInitializer, initializerValue) ==
    IF hasInitializer THEN initializerValue
    ELSE IF Truthy(rs.entityState) THEN JSONparse(rs.entityState)
    ELSE Undef

\* hasInitializer: initializer != null; initializerValue: what initializer() returns
getState(rs, hasInitializer, initializerValue) ==
    IF Truthy(rs.entityState) THEN JSONparse(rs.entityState)
    ELSE IF hasInitializer THEN initializerValue
    ELSE Undef

\* a return that records the result without re-asserting existence
returnKeepsExists(rs, result) ==
    [rs EXCEPT !.results = Append(@, OperationResult(FALSE, JSONstringify(result)))]

return(rs, result) ==
    [rs EXCEPT !.entityExists = TRUE,
               !.results = Append(@, OperationResult(FALSE, JSONstringify(result)))]

\* a setState that stores the state without re-asserting existence
setStateKeepsExists(rs, state) ==
    [rs EXCEPT !.entityState = JSONstringify(state)]

setState(rs, state) ==
    [rs EXCEPT !.entityExists = TRUE, !.entityState = JSONstringify(state)]

\* a signalEntity that puts the new signal in front of the recorded ones
signalEntityExplicitPrepends(rs, entityId, arg2, arg3) ==
    LET operationInput == IF TruthyValue(arg3) THEN JSONstringify(arg3) ELSE EmptyText
    IN [rs EXCEPT !.signals = <<Signal(entityId, arg2,
            IF Truthy(operationInput) THEN JSONstringify(Str(operationInput))
            ELSE EmptyText)>> \o @]

\* explicit form: signalEntity(entityId, operationName, input)
signalEntityExplicit(rs, entityId, arg2, arg3) ==
    LET operationInput == IF TruthyValue(arg3) THEN JSONstringify(arg3) ELSE EmptyText
    IN [rs EXCEPT !.signals = Append(@, Signal(entityId, arg2,
            IF Truthy(operationInput) THEN JSONstringify(Str(operationInput))
            ELSE EmptyText))]

\* typed form: signalEntity(entityId, entityObject, proxy => proxy.method(args))
signalEntityTyped(rs, entityId, method, args) ==
    LET signalParameters == [operationName |-> method, operationContent |-> Arr(args)]
    IN [rs EXCEPT !.signals = Append(@, Signal(entityId, signalParameters.operationName,
            IF TruthyValue(signalParameters.operationContent)
            THEN JSONstringify(signalParameters.operationContent)
            ELSE EmptyText))]

\* an overlay in which the factory defaults win over the state's fields
ObjectAssignTargetWins(target, source) ==
    IF source.t = "object"
    THEN Obj([k \in DOMAIN target.f \cup DOMAIN source.f |->
                 IF k \in DOMAIN target.f THEN target.f[k] ELSE source.f[k]])
    ELSE target

\* Object.assign(target, source)
ObjectAssign(target, source) ==
    IF source.t = "object"
    THEN Obj([k \in DOMAIN target.f \cup DOMAIN source.f |->
                 IF k \in DOMAIN source.f THEN source.f[k] ELSE target.f[k]])
    ELSE target

\* returnState.results[idx] = r
SetResult(rs, idx, r) ==
    IF idx < Len(rs.results)
    THEN [rs EXCEPT !.results = [@ EXCEPT ![idx + 1] = r]]
    ELSE [rs EXCEPT !.results = Append(@, r)]

\* ------------------------------------------------------------ batch driver
\* loop head of handle: build the context of request k and call this.fn, or
\* leave the loop and call context.done(null, returnState)
Enter(k, rs, lg) ==
    IF k < Len(entityBinding.batch)
    THEN /\ pc' = "fn"
         /\ i' = k
         /\ df' = getCurrentDurableEntityContext(entityBinding, rs, k)
         /\ ip' = 0
         /\ log' = Append(lg, NewLog)
         /\ stepReq' = k
         /\ doneCalls' = doneCalls
    ELSE /\ pc' = "done"
         /\ i' = k
         /\ df' = df
         /\ ip' = 0
         /\ log' = lg
         /\ stepReq' = stepReq
         /\ doneCalls' = doneCalls + 1

\* a handle that hands an empty accumulator to the host when the binding is missing
HandleWithoutBinding ==
    /\ pc = "idle"
    /\ IF entityBinding = NoBinding
       THEN /\ pc' = "done"
            /\ doneCalls' = doneCalls + 1
            /\ returnState' = [created |-> TRUE, entityExists |-> FALSE,
                               entityState |-> UndefinedText,
                               results |-> <<>>, signals |-> <<>>]
            /\ UNCHANGED <<i, df, ip, log, stepReq>>
       ELSE LET rs == [created |-> TRUE,
                       entityExists |-> entityBinding.exists,
                       entityState |-> entityBinding.state,
                       results |-> <<>>,
                       signals |-> <<>>]
            IN /\ returnState' = rs
               /\ Enter(0, rs, log)
    /\ UNCHANGED <<entityBinding, pending, written, destroyed, read, resumed>>

\* handle, from its call up to the first this.fn(context)
Handle ==
    /\ pc = "idle"
    /\ IF entityBinding = NoBinding
       THEN /\ pc' = "failed"
            /\ UNCHANGED <<i, df, ip, returnState, log, stepReq, doneCalls>>
       ELSE LET rs == [created |-> TRUE,
                       entityExists |-> entityBinding.exists,
                       entityState |-> entityBinding.state,
                       results |-> <<>>,
                       signals |-> <<>>]
            IN /\ returnState' = rs
               /\ Enter(0, rs, log)
    /\ UNCHANGED <<entityBinding, pending, written, destroyed, read, resumed>>

Running == pc = "fn"
Logic == UserLogic(df.operationName)
AtCall(op) == /\ Running
              /\ ip < Len(Logic.calls)
              /\ Logic.calls[ip + 1].op = op
Call == Logic.calls[ip + 1]
Stepped == /\ ip' = ip + 1
           /\ stepReq' = i
           /\ UNCHANGED <<entityBinding, pc, i, df, doneCalls, resumed>>

\* this.fn(context) returned: lines 34-37, then the next iteration or done
FnReturns ==
    /\ Running
    /\ ip = Len(Logic.calls)
    /\ ~Logic.throws
    /\ LET rs == IF i >= Len(returnState.results)
                 THEN SetResult(returnState, i, OperationResult(FALSE, UndefinedText))
                 ELSE returnState
       IN /\ returnState' = rs
          /\ Enter(i + 1, rs, [log EXCEPT ![i + 1].end = "completed"])
    /\ read' = NoRead
    /\ UNCHANGED <<entityBinding, pending, written, destroyed, resumed>>

\* a catch block that restores the state the invocation started with
FnThrowsRollsBack ==
    /\ Running
    /\ ip = Len(Logic.calls)
    /\ Logic.throws
    /\ LET rs == SetResult([returnState EXCEPT !.entityExists = entityBinding.exists,
                                               !.entityState = entityBinding.state],
                           i, OperationResult(TRUE, JSONstringify(Logic.error)))
       IN /\ returnState' = rs
          /\ Enter(i + 1, rs, [log EXCEPT ![i + 1].end = "threw"])
    /\ read' = NoRead
    /\ UNCHANGED <<entityBinding, pending, written, destroyed, resumed>>

\* a catch block that gives up on the rest of the batch
FnThrowsAborts ==
    /\ Running
    /\ ip = Len(Logic.calls)
    /\ Logic.throws
    /\ LET rs == SetResult(returnState, i,
                           OperationResult(TRUE, JSONstringify(Logic.error)))
       IN /\ returnState' = rs
          /\ Enter(Len(entityBinding.batch), rs, [log EXCEPT ![i + 1].end = "threw"])
    /\ read' = NoRead
    /\ UNCHANGED <<entityBinding, pending, written, destroyed, resumed>>

\* this.fn(context) threw: lines 38-41, then the next iteration or done
FnThrows ==
    /\ Running
    /\ ip = Len(Logic.calls)
    /\ Logic.throws
    /\ LET rs == SetResult(returnState, i,
                           OperationResult(TRUE, JSONstringify(Logic.error)))
       IN /\ returnState' = rs
          /\ Enter(i + 1, rs, [log EXCEPT ![i + 1].end = "threw"])
    /\ read' = NoRead
    /\ UNCHANGED <<entityBinding, pending, written, destroyed, resumed>>

\* ------------------------------------------------------ calls of user logic
\* a getState that stores the initializer's value when the state is absent
GetStatePersistsInitializer ==
    /\ AtCall("getState")
    /\ LET v == getState(returnState, Call.init, InitializerValue)
       IN /\ read' = [req |-> i, init |-> Call.init, v |-> v]
          /\ returnState' = IF Call.init /\ ~Truthy(returnState.entityState)
                            THEN setState(returnState, v)
                            ELSE returnState
    /\ Stepped
    /\ UNCHANGED <<pending, log, written, destroyed>>

GetState ==
    /\ AtCall("getState")
    /\ read' = [req |-> i, init |-> Call.init,
                v |-> getState(returnState, Call.init, InitializerValue)]
    /\ Stepped
    /\ UNCHANGED <<returnState, pending, log, written, destroyed>>

SetState ==
    /\ AtCall("setState")
    /\ returnState' = setState(returnState, Call.v)
    /\ written' = [kind |-> "set", v |-> Call.v, req |-> i]
    /\ destroyed' = FALSE
    /\ read' = NoRead
    /\ Stepped
    /\ UNCHANGED <<pending, log>>

Return ==
    /\ AtCall("return")
    /\ returnState' = return(returnState, Call.v)
    /\ destroyed' = FALSE
    /\ read' = NoRead
    /\ Stepped
    /\ UNCHANGED <<pending, log, written>>

\* context.df.return(context.df.getState())
ReturnState ==
    /\ AtCall("returnState")
    /\ LET v == getState(returnState, FALSE, Undef)
       IN /\ returnState' = return(returnState, v)
          /\ read' = [req |-> i, init |-> FALSE, v |-> v]
    /\ destroyed' = FALSE
    /\ Stepped
    /\ UNCHANGED <<pending, log, written>>

DestructOnExit ==
    /\ AtCall("destructOnExit")
    /\ returnState' = destructOnExit(returnState)
    /\ written' = [kind |-> "destruct", v |-> Undef, req |-> i]
    /\ destroyed' = TRUE
    /\ read' = NoRead
    /\ Stepped
    /\ UNCHANGED <<pending, log>>

SignalEntity ==
    /\ AtCall("signalEntity")
    /\ returnState' = signalEntityExplicit(returnState, TargetId, "op", Call.v)
    /\ read' = NoRead
    /\ Stepped
    /\ UNCHANGED <<pending, log, written, destroyed>>

SignalEntityTyped ==
    /\ AtCall("signalTyped")
    /\ returnState' = signalEntityTyped(returnState, TargetId, "add", Call.v)
    /\ read' = NoRead
    /\ Stepped
    /\ UNCHANGED <<pending, log, written, destroyed>>

\* ---------------------------------------------------------------- dispatch
CurrentRequest == entityBinding.batch[df.requestIndex + 1]

\* dispatch, lines 148-149: the entity object the method is invoked on
DispatchEntity(rs) ==
    ObjectAssign(EntityFactory, getState(rs, TRUE, Obj(EmptyFields)))

\* dispatch throws before "await": lines 144-146, 151-153, 155-156
DispatchFails(currentRequest) ==
    \/ currentRequest.name = ""
    \/ currentRequest.name \notin Methods
    \/ getInput(currentRequest) = Undef
    \/ currentRequest.name = "fail"

\* a dispatch that stores the overlaid entity before it checks the operation
DispatchRejectsAfterWrite ==
    /\ AtCall("dispatch")
    /\ DispatchFails(CurrentRequest)
    /\ returnState' = setState(returnState, DispatchEntity(returnState))
    /\ log' = [log EXCEPT ![i + 1].dispatch = "rejected"]
    /\ read' = NoRead
    /\ Stepped
    /\ UNCHANGED <<pending, written, destroyed>>

\* the promise dispatch returns is rejected; nothing was written
DispatchRejects ==
    /\ AtCall("dispatch")
    /\ DispatchFails(CurrentRequest)
    /\ log' = [log EXCEPT ![i + 1].dispatch = "rejected"]
    /\ read' = NoRead
    /\ Stepped
    /\ UNCHANGED <<returnState, pending, written, destroyed>>

\* the method returned a plain value: lines 156-164 run inside the call
DispatchSync ==
    /\ AtCall("dispatch")
    /\ ~DispatchFails(CurrentRequest)
    /\ CurrentRequest.name = "add"
    /\ LET entity == Add(DispatchEntity(returnState), getInput(CurrentRequest).a)
           result == Num(entity.f["counter"])
       IN /\ returnState' = return(setState(returnState, entity), result)
          /\ written' = [kind |-> "set", v |-> entity, req |-> i]
    /\ destroyed' = FALSE
    /\ log' = [log EXCEPT ![i + 1].dispatch = "sync"]
    /\ read' = NoRead
    /\ Stepped
    /\ UNCHANGED pending

\* the method returned a promise: dispatch suspends at line 160
DispatchAwaits ==
    /\ AtCall("dispatch")
    /\ ~DispatchFails(CurrentRequest)
    /\ CurrentRequest.name = "addAsync"
    /\ LET entity == Add(DispatchEntity(returnState), getInput(CurrentRequest).a)
           result == Num(entity.f["counter"])
       IN pending' = pending \cup {[req |-> i, entity |-> entity, result |-> result]}
    /\ log' = [log EXCEPT ![i + 1].dispatch = "awaiting"]
    /\ read' = NoRead
    /\ Stepped
    /\ UNCHANGED <<returnState, written, destroyed>>

\* a suspended dispatch resumes after "await": lines 163-164.  The microtask
\* runs only when the call stack is empty, i.e. after handle has finished.
DispatchResumes ==
    /\ pc = "done"
    /\ \E p \in pending :
         /\ returnState' = return(setState(returnState, p.entity), p.result)
         /\ pending' = pending \ {p}
         /\ written' = [kind |-> "set", v |-> p.entity, req |-> p.req]
         /\ stepReq' = p.req
    /\ destroyed' = FALSE
    /\ read' = NoRead
    /\ resumed' = resumed + 1
    /\ UNCHANGED <<entityBinding, pc, i, df, ip, doneCalls, log>>

Next ==
    \/ Handle
    \/ FnReturns
    \/ FnThrows
    \/ GetState
    \/ SetState
    \/ Return
    \/ ReturnState
    \/ DestructOnExit
    \/ SignalEntity
    \/ SignalEntityTyped
    \/ DispatchRejects
    \/ DispatchSync
    \/ DispatchAwaits
    \/ DispatchResumes

Spec == Init /\ [][Next]_vars

\* handle runs to completion and the event loop runs every ready microtask
FairSpec == Spec /\ WF_vars(Next)

TypeOK ==
    /\ pc \in {"idle", "fn", "done", "failed"}
    /\ doneCalls \in 0..1
    /\ pc = "fn" => i < Len(entityBinding.batch)

\* ------------------------------------------------------------------ claims
Batch == entityBinding.batch
Created == returnState # NoReturnState
RequestsStarted == Len(log)
Finished(k) == k <= Len(log) /\ log[k].end # "running"
HandedOff == pc = "done" /\ resumed = 0
CallsOf(k) == UserLogic(Batch[k].name).calls
OpsOf(k) == {CallsOf(k)[c].op : c \in 1..Len(CallsOf(k))}
ReturnsOf(k) == {c \in 1..Len(CallsOf(k)) : CallsOf(k)[c].op = "return"}
WritesState(k) == OpsOf(k) \cap {"setState", "dispatch"} # {}

\* C1: results never has more entries than requests started, and at the
\* hand-off to the host it has exactly one entry per request, entry k being
\* a failure exactly when request k threw.
C1_ExactlyNResults ==
    Created =>
        /\ Len(returnState.results) <= RequestsStarted
        /\ HandedOff =>
              /\ Len(returnState.results) = Len(Batch)
              /\ \A k \in 1..Len(Batch) :
                    returnState.results[k].isError = (log[k].end = "threw")

\* C2 (state part): user logic is invoked once per request in batch order,
\* also after a request threw, and in a two-request batch whose first request
\* throws without writing state and whose second completes, results[0] is a
\* failure, results[1] is not, and the state is what the second request wrote.
C2_Safety ==
    /\ pc = "fn" => /\ i = Len(log) - 1
                    /\ \A k \in 1..(Len(log) - 1) : Finished(k)
    /\ pc = "done" => /\ Len(log) = Len(Batch)
                      /\ \A k \in 1..Len(log) : Finished(k)
    /\ ( /\ HandedOff
         /\ Len(Batch) = 2
         /\ log[1].end = "threw"
         /\ ~WritesState(1)
         /\ log[2].end = "completed" )
       => /\ returnState.results[1].isError
          /\ ~returnState.results[2].isError
          /\ returnState.results[1].result = JSONstringify(UserLogic(Batch[1].name).error)
          /\ (written # NoWrite /\ written.req = 1 /\ written.kind = "set")
                => /\ returnState.entityState = JSONstringify(written.v)
                   /\ returnState.entityExists
          /\ Batch[2].name = "set7" => returnState.entityState = <<"7">>
          /\ written = NoWrite => returnState.entityState = entityBinding.state

\* C2: a failure never aborts the batch: C2_Safety always holds and every
\* invocation with a binding ends with the accumulator handed to the host.
C2_FailureNeverAborts ==
    /\ []C2_Safety
    /\ (entityBinding # NoBinding) ~> (pc = "done" /\ doneCalls = 1)

C2_Witness ==
    /\ HandedOff
    /\ Len(Batch) = 2
    /\ log[1].end = "threw"
    /\ log[2].end = "completed"
    /\ written # NoWrite
    /\ written.req = 1
    /\ returnState.results[1].isError
    /\ returnState.entityState = <<"7">>

\* C3: for every finished request k: if its user logic called return(v) once
\* and completed, results[k] is {isError:false, payload:encode(v)}; if it
\* threw, results[k] is {isError:true, payload:encode(error)}.
C3_ResultAtIndex ==
    \A k \in 1..Len(log) :
        (Finished(k) /\ k <= Len(returnState.results)) =>
            /\ (log[k].end = "completed" /\ Cardinality(ReturnsOf(k)) = 1)
                  => \A c \in ReturnsOf(k) :
                        returnState.results[k]
                            = OperationResult(FALSE, JSONstringify(CallsOf(k)[c].v))
            /\ log[k].end = "threw"
                  => returnState.results[k]
                        = OperationResult(TRUE, JSONstringify(UserLogic(Batch[k].name).error))

\* C4: for every finished request k whose user logic neither called return
\* (directly or through dispatch) nor threw, results[k] is the synthesized
\* success with empty payload.
C4_ImplicitSuccess ==
    \A k \in 1..Len(log) :
        ( /\ Finished(k)
          /\ log[k].end = "completed"
          /\ OpsOf(k) \cap {"return", "returnState", "dispatch"} = {} )
        => /\ k <= Len(returnState.results)
           /\ returnState.results[k] = OperationResult(FALSE, UndefinedText)

\* C5: requests are processed one at a time: no step belongs to a request
\* earlier than the latest one started, and while a request's user logic runs
\* no continuation of an earlier request is still suspended.
C5_OneAtATime ==
    Len(log) > 0 =>
        /\ stepReq = Len(log) - 1
        /\ pc = "fn" => \A p \in pending : p.req = i

\* C6: context.done is called once, after every continuation has finished:
\* no step after the hand-off changes the accumulator.
C6_NothingAfterDone ==
    [][pc = "done" => (returnState' = returnState /\ doneCalls' = 1)]_vars

\* C7: a request whose dispatch failed (empty operation name, operation not a
\* method, or the method threw) has a failure recorded as its result.
C7_DispatchFailureRecorded ==
    \A k \in 1..Len(log) :
        (Finished(k) /\ log[k].dispatch = "rejected")
            => /\ k <= Len(returnState.results)
               /\ returnState.results[k].isError

\* the dispatch-style scenario: every request is add(n) on the Counter entity
AllAdd == \A k \in 1..Len(Batch) :
             Batch[k].name = "add" /\ Batch[k].input \in {ArgsOne, ArgsTwo, ArgsFive}
ArgOf(input) == CASE input = ArgsOne -> 1 [] input = ArgsTwo -> 2 [] input = ArgsFive -> 5
RECURSIVE SumArgs(_)
SumArgs(k) == IF k = 0 THEN 0 ELSE SumArgs(k - 1) + ArgOf(Batch[k].input)
\* the counter the first add starts from: the seed state's field, else the factory's 0
SeedCounter == IF Len(entityBinding.state) > 2 THEN 9 ELSE 0
Applied == IF pc = "fn" THEN Len(log) - 1 + ip ELSE Len(log)
CounterFive == <<"{", "\"", "c", "o", "u", "n", "t", "e", "r", "\"", ":", "5", "}">>

\* C8: in a batch of add(n_1)..add(n_k) handled by dispatch, result j carries
\* the running sum (from the seed state's counter, or the factory's 0), and
\* after j requests the state is the encoding of {counter: running sum} and the
\* entity exists; add(5) from {exists:false} gives {"counter":5} and "5".
C8_DispatchSync ==
    (Created /\ AllAdd) =>
        /\ Len(returnState.results) = Applied
        /\ \A k \in 1..Applied :
              returnState.results[k]
                  = OperationResult(FALSE, JSONstringify(Num(SeedCounter + SumArgs(k))))
        /\ Applied > 0 =>
              /\ returnState.entityExists
              /\ returnState.entityState
                    = JSONstringify(Obj(CounterFields(SeedCounter + SumArgs(Applied))))
        /\ (pc = "done" /\ Batch = <<[name |-> "add", input |-> ArgsFive]>>
                /\ ~entityBinding.exists)
              => /\ returnState.entityState = CounterFive
                 /\ returnState.results = <<OperationResult(FALSE, <<"5">>)>>

C8_Witness ==
    /\ pc = "done"
    /\ AllAdd
    /\ Len(Batch) = 2
    /\ Len(entityBinding.state) > 2
    /\ returnState.results[2].result = <<"1", "2">>

C10_Destroyed ==
    destroyed =>
        /\ ~returnState.entityExists
        /\ returnState.entityState = UndefinedText
        /\ (pc = "fn" /\ ip = 0) => df.isNewlyConstructed
        /\ (read # NoRead /\ ~read.init) => read.v = Undef

\* C10: C10_Destroyed always holds, and a destructOnExit step leaves the
\* recorded results and signals as they were.
C10_DestructOnExit ==
    /\ []C10_Destroyed
    /\ [][(written' # written /\ written'.kind = "destruct")
            => /\ returnState'.results = returnState.results
               /\ returnState'.signals = returnState.signals
               /\ ~returnState'.entityExists
               /\ returnState'.entityState = UndefinedText]_vars

C10_Witness ==
    /\ destroyed
    /\ pc = "done"
    /\ Len(returnState.results) = 2
    /\ Len(returnState.signals) = 2
    /\ entityBinding.exists
    /\ Truthy(entityBinding.state)

\* the context calls request k has made so far
CallsMade(k) == IF pc = "fn" /\ k = Len(log) THEN SubSeq(CallsOf(k), 1, ip) ELSE CallsOf(k)
IsSignalCall(c) == c.op \in {"signalEntity", "signalTyped"}
RECURSIVE SignalCallsUpTo(_)
SignalCallsUpTo(k) ==
    IF k = 0 THEN <<>> ELSE SignalCallsUpTo(k - 1) \o SelectSeq(CallsMade(k), IsSignalCall)
IsPrefix(s, t) == Len(s) <= Len(t) /\ SubSeq(t, 1, Len(s)) = s

\* C11 (state part): signals has one entry per signalEntity call made so far
\* in the batch, in call order, whatever request made it and however that
\* request went on.
C11_SignalsInCallOrder ==
    Created =>
        LET made == SignalCallsUpTo(Len(log))
        IN /\ Len(returnState.signals) = Len(made)
           /\ \A k \in 1..Len(made) :
                 /\ returnState.signals[k].target = TargetId
                 /\ returnState.signals[k].name
                       = (IF made[k].op = "signalEntity" THEN "op" ELSE "add")

\* C11: the signals ledger is append-only and ordered by call: C11_SignalsInCallOrder
\* always holds and every step keeps the recorded signals as a prefix.
C11_SignalsAppendOnly ==
    /\ []C11_SignalsInCallOrder
    /\ [][Created => IsPrefix(returnState.signals, returnState'.signals)]_vars

C11_Witness ==
    /\ pc = "done"
    /\ Len(Batch) = 2
    /\ Batch[1].name = "ping"
    /\ Batch[2].name = "bye"
    /\ log[1].end = "threw"
    /\ destroyed
    /\ Len(returnState.signals) = 2

\* C12: every recorded signal carries the single encoding of the input of
\* its call: encode(input), or empty when input is absent, in the explicit
\* form; the method name and encode(args) in the typed form.
C12_SignalInputEncodedOnce ==
    Created =>
        LET made == SignalCallsUpTo(Len(log))
        IN \A k \in 1..Len(made) :
              k <= Len(returnState.signals) =>
                 IF made[k].op = "signalEntity"
                 THEN /\ made[k].v = Undef => returnState.signals[k].input = EmptyText
                      /\ made[k].v # Undef =>
                            /\ returnState.signals[k].input = JSONstringify(made[k].v)
                            /\ JSONparse(returnState.signals[k].input) = made[k].v
                 ELSE /\ returnState.signals[k].name = "add"
                      /\ returnState.signals[k].input = JSONstringify(Arr(made[k].v))

\* C13: with no entity binding the invocation fails as a whole: no user
\* logic is invoked, no accumulator is created and context.done is not called.
C13_NoBindingIsFatal ==
    entityBinding = NoBinding =>
        /\ pc \in {"idle", "failed"}
        /\ ~Created
        /\ log = <<>>
        /\ doneCalls = 0
        /\ pending = {}

C13_Witness ==
    /\ entityBinding = NoBinding
    /\ pc = "failed"
    /\ doneCalls = 0

\* C14: a request that calls setState(v) and then throws has a failure as
\* its result, while the write stays: until the next write entityState is
\* encode(v), entityExists is true and the next request's getState returns v.
C14_SetStateNotRolledBack ==
    \A k \in 1..Len(log) :
        (Finished(k) /\ log[k].end = "threw" /\ "setState" \in OpsOf(k)) =>
            /\ returnState.results[k].isError
            /\ (written # NoWrite /\ written.req = k - 1 /\ written.kind = "set") =>
                  /\ returnState.entityExists
                  /\ returnState.entityState = JSONstringify(written.v)
                  /\ Batch[k].name = "setboom" => returnState.entityState = <<"7">>
                  /\ (read # NoRead /\ read.req = k) => read.v = written.v

C14_Witness ==
    /\ Len(log) = 2
    /\ Batch[1].name = "setboom"
    /\ log[1].end = "threw"
    /\ returnState.results[1].isError
    /\ read # NoRead
    /\ read.req = 1
    /\ read.v = Num(7)

\* C15: no recorded OperationResult is ever replaced or removed: in every
\* step the results before the step are a prefix of the results after it.
C15_ResultsNeverMutated ==
    [][Created => IsPrefix(returnState.results, returnState'.results)]_vars

\* C16: entityExists goes from true to false only in a destructOnExit step,
\* is true right after every setState and return step, and the driver's own
\* steps (seeding, recording an implicit success or a failure, building the
\* next context) leave entityExists and entityState as they are.
C16_ExistsTransitions ==
    [][ /\ (Created /\ returnState.entityExists /\ ~returnState'.entityExists)
            => AtCall("destructOnExit")
        /\ (AtCall("setState") \/ AtCall("return") \/ AtCall("returnState"))
            => returnState'.entityExists
        /\ (Running /\ ip = Len(Logic.calls))
            => /\ returnState'.entityExists = returnState.entityExists
               /\ returnState'.entityState = returnState.entityState
        /\ (pc = "idle" /\ entityBinding # NoBinding)
            => /\ returnState'.entityExists = entityBinding.exists
               /\ returnState'.entityState = entityBinding.state ]_vars

C16_Witness ==
    /\ pc = "done"
    /\ Len(Batch) = 2
    /\ Batch[1].name = "reset"
    /\ Batch[2].name = "ret"
    /\ entityBinding.exists
    /\ returnState.entityExists
    /\ returnState.entityState = UndefinedText

\* C17 (state part): with the state absent, getState(initializer) returns
\* the initializer's result and getState() returns no value.
C17_ReadOfAbsentState ==
    (read # NoRead /\ ~Truthy(returnState.entityState))
        => read.v = (IF read.init THEN InitializerValue ELSE Undef)

\* C17: getState is read-only: C17_ReadOfAbsentState always holds and a
\* getState step leaves the accumulator unchanged.
C17_GetStateReadOnly ==
    /\ []C17_ReadOfAbsentState
    /\ [][AtCall("getState") => returnState' = returnState]_vars

C17_Witness ==
    /\ pc = "fn"
    /\ df.operationName = "init"
    /\ ip = 2
    /\ read # NoRead
    /\ ~read.init
    /\ read.v = Undef
    /\ ~returnState.entityExists

\* C18: whenever code of request r runs, context.df is the context built
\* for request r: it reports r's index and operation name.
C18_ContextOfRunningRequest ==
    (Created /\ stepReq >= 0) =>
        /\ df.requestIndex = stepReq
        /\ df.operationName = Batch[stepReq + 1].name

FailingDispatchNames == {"", "missing", "fail"}

\* C19 (state part): while a request whose dispatch failed is still the
\* running one, entityExists is what it was when its context was built and
\* no continuation of it is suspended.
C19_NothingWritten ==
    (pc = "fn" /\ log[i + 1].dispatch = "rejected") =>
        /\ returnState.entityExists = ~df.isNewlyConstructed
        /\ \A p \in pending : p.req # i

\* C19: a dispatch that fails (empty name, unknown method, method throws)
\* writes nothing: the step leaves the accumulator unchanged and suspends no
\* continuation.
C19_FailedDispatchWritesNothing ==
    /\ []C19_NothingWritten
    /\ [][(AtCall("dispatch") /\ CurrentRequest.name \in FailingDispatchNames)
            => /\ returnState' = returnState
               /\ pending' = pending]_vars

C19_Witness ==
    /\ pc = "fn"
    /\ i = 1
    /\ ip = 1
    /\ log[2].dispatch = "rejected"
    /\ Batch[2].name = "fail"
    /\ returnState.entityState = <<"7">>
    /\ Len(returnState.results) = 1

SeedConsistent == entityBinding.exists \/ entityBinding.state = UndefinedText

\* C20: from a seed with (exists = false => state absent), in every state
\* entityExists = false implies entityState is absent.
C20_NotExistsImpliesNoState ==
    (Created /\ SeedConsistent) =>
        (~returnState.entityExists => returnState.entityState = UndefinedText)

C20_Witness ==
    /\ pc = "done"
    /\ Truthy(entityBinding.state)
    /\ Len(Batch) = 2
    /\ Batch[1].name = "set7"
    /\ Batch[2].name = "reset"
    /\ ~returnState.entityExists
    /\ returnState.entityState = UndefinedText

====
